---- MODULE Spec2Model ----
(***************************************************************************)
(* The RNS airdrop program (programs/airdrop/src/lib.rs) as a state        *)
(* machine: the State account, the six instructions and the helpers they   *)
(* call.  One action per instruction; an instruction that returns Err      *)
(* leaves the account as it was (the runtime discards a failed             *)
(* instruction's writes).                                                  *)
(***************************************************************************)
EXTENDS Integers, Sequences, FiniteSets, TLC

(***************************************************************************)
(* Program constants.                                                      *)
(***************************************************************************)
MAX_CLAIMS == 1000000

MODULUS0 == 971

MODULUS1 == 311

MODULUS2 == 601

RESIDUES0_LEN == 122

RESIDUES1_LEN == 39

RESIDUES2_LEN == 76

(***************************************************************************)
(* Bounds of the model.                                                    *)
(***************************************************************************)
\* The clock runs over 0..MaxTime.
MaxTime == 2

\* Window starts offered to initialize and update_claim_window: 0..MaxStart.
MaxStart == 1

\* Signers (wallets, authorities) are 1..NumSigners.
NumSigners == 2

\* Amounts offered to claim are 1..MaxAmount.
MaxAmount == 2

\* Width in bits of the model's signed timestamp type.  The program's i64 has
\* 64 bits; the model keeps the two's-complement arithmetic at a smaller
\* width.
TsBits == 6

\* The ghost counter of successful claims per slot saturates here.
MaxPaid == 2

\* The commitments of the proof round trip are built over 2^d leaves, for d
\* in 0..MaxDepth.
MaxDepth == 2

I64_MAX == (2 ^ (TsBits - 1)) - 1

I64_MIN == 0 - (2 ^ (TsBits - 1))

\* Two's-complement wrap of a sum that left the signed range.
WrapI64(v) == ((v - I64_MIN) % (2 ^ TsBits)) + I64_MIN

Signers == 1..NumSigners

\* The signer that pays for and creates the State account.
Payers == {1}

Times == 0..MaxTime

(***************************************************************************)
(* Digests.  keccak is modelled as a collision-free hash: the digest of a  *)
(* preimage is the preimage's fields as a tuple, so two digests are equal  *)
(* iff their preimages are.  A leaf digest (hashv of three fields, 48      *)
(* bytes) is a 3-tuple in the order the fields are fed, a node digest      *)
(* (hash of a 64-byte buffer) is the pair of its two halves, and <<n>> is  *)
(* a 32-byte value that is no digest of either kind.                       *)
(***************************************************************************)
RawDigest(n) == <<n>>

keccak_leaf(index, wallet, amount) == <<index, wallet, amount>>

keccak_hash64(first, second) == <<first, second>>

\* The byte-wise order of [u8; 32] values (hash <= *p), as a total order on
\* the modelled digests.
RECURSIVE DigestLess(_, _)
DigestLess(a, b) ==
    IF Len(a) # Len(b) THEN Len(a) < Len(b)
    ELSE IF Len(a) = 2
         THEN DigestLess(a[1], b[1]) \/ (a[1] = b[1] /\ DigestLess(a[2], b[2]))
         ELSE \E k \in 1..Len(a) :
                  /\ a[k] < b[k]
                  /\ \A j \in 1..(k - 1) : a[j] = b[j]

DigestLE(a, b) == a = b \/ DigestLess(a, b)

\* Mutant: the running hash always goes first, whatever the order.
FoldStep_unsorted(hash, p) == keccak_hash64(hash, p)

\* One round of the loop of verify_merkle_proof: the smaller value first.
FoldStep(hash, p) ==
    IF DigestLE(hash, p) THEN keccak_hash64(hash, p) ELSE keccak_hash64(p, hash)

RECURSIVE FoldProof(_, _)
FoldProof(hash, proof) ==
    IF proof = <<>> THEN hash
    ELSE FoldProof(FoldStep(hash, Head(proof)), Tail(proof))

\* Mutant: the folded hash is not compared with the root.
verify_merkle_proof_no_compare(leaf, proof, root) == TRUE

verify_merkle_proof(leaf, proof, root) == FoldProof(leaf, proof) = root

(***************************************************************************)
(* Residue arrays: [u8; len], indexed from 0.  An array is kept as its     *)
(* length and its non-zero bytes (byte index :> value); every other byte   *)
(* below len is 0.                                                         *)
(***************************************************************************)
ZeroBytes(n) == [len |-> n, bytes |-> <<>>]

\* residues[byte_index], for byte_index < len.
ByteAt(residues, byte_index) ==
    IF byte_index \in DOMAIN residues.bytes
    THEN residues.bytes[byte_index]
    ELSE 0

\* byte & (1 << bit_index) != 0
BitAnd(byte, bit_index) == (byte \div (2 ^ bit_index)) % 2 = 1

\* byte | (1 << bit_index)
BitOr(byte, bit_index) ==
    IF BitAnd(byte, bit_index) THEN byte ELSE byte + (2 ^ bit_index)

\* Mutant: the test is of the whole byte, where the code masks one bit.
check_residue_set_whole_byte(residues, residue) ==
    LET byte_index == residue \div 8
    IN  IF byte_index < residues.len
        THEN ByteAt(residues, byte_index) # 0
        ELSE FALSE

check_residue_set(residues, residue) ==
    LET byte_index == residue \div 8
        bit_index == residue % 8
    IN  IF byte_index < residues.len
        THEN BitAnd(ByteAt(residues, byte_index), bit_index)
        ELSE FALSE

\* Mutant: the byte is assigned (=) where the code ORs into it (|=).
set_residue_assign(residues, residue) ==
    LET byte_index == residue \div 8
        bit_index == residue % 8
    IN  IF byte_index < residues.len
        THEN [residues EXCEPT !.bytes = (byte_index :> (2 ^ bit_index)) @@ @]
        ELSE residues

\* Mutant: the bit is set in a copy of the array, which is dropped.
set_residue_on_copy(residues, residue) == residues

set_residue(residues, residue) ==
    LET byte_index == residue \div 8
        bit_index == residue % 8
    IN  IF byte_index < residues.len
        THEN [residues EXCEPT !.bytes =
                 (byte_index :> BitOr(ByteAt(residues, byte_index), bit_index))
                     @@ @]
        ELSE residues

\* Mutant: a slot counts as claimed only when all three of its bits are set.
IsMember_all_lanes(st, index) ==
    /\ check_residue_set(st.claim_residues0, index % MODULUS0)
    /\ check_residue_set(st.claim_residues1, index % MODULUS1)
    /\ check_residue_set(st.claim_residues2, index % MODULUS2)

\* The duplicate test of claim: an OR over the three lanes.
IsMember(st, index) ==
    \/ check_residue_set(st.claim_residues0, index % MODULUS0)
    \/ check_residue_set(st.claim_residues1, index % MODULUS1)
    \/ check_residue_set(st.claim_residues2, index % MODULUS2)

\* Mutant: the slot's bit is set in the first two arrays only.
MarkClaimed_two_lanes(st, index) ==
    [st EXCEPT !.claim_residues0 = set_residue(@, index % MODULUS0),
               !.claim_residues1 = set_residue(@, index % MODULUS1)]

\* The marking of claim: the slot's bit in each of the three arrays.
MarkClaimed(st, index) ==
    [st EXCEPT !.claim_residues0 = set_residue(@, index % MODULUS0),
               !.claim_residues1 = set_residue(@, index % MODULUS1),
               !.claim_residues2 = set_residue(@, index % MODULUS2)]

(***************************************************************************)
(* The allocation snapshots the commitments are built over, off chain: the *)
(* leaves in slot order, paired level by level with the smaller digest     *)
(* first.                                                                  *)
(***************************************************************************)
Entry(index, wallet, amount) ==
    [index |-> index, wallet |-> wallet, amount |-> amount]

\* Slots that share exactly one residue with slot 0: 971, 311, 601.
SnapshotA ==
    << Entry(0, 1, 1), Entry(MODULUS1, 2, 2),
       Entry(MODULUS2, 1, 2), Entry(MODULUS0, 2, 1) >>

\* A later allocation round: slot 0 again, and slot 1, whose residues lie in
\* the same bytes as slot 0's.
SnapshotB == << Entry(0, 2, 2), Entry(1, 1, 1) >>

Leaves(snapshot) ==
    [k \in 1..Len(snapshot) |->
        keccak_leaf(snapshot[k].index, snapshot[k].wallet, snapshot[k].amount)]

PairUp(level) ==
    [k \in 1..(Len(level) \div 2) |-> FoldStep(level[2 * k - 1], level[2 * k])]

RECURSIVE MerkleRoot(_)
MerkleRoot(level) ==
    IF Len(level) = 1 THEN level[1] ELSE MerkleRoot(PairUp(level))

RECURSIVE MerkleProof(_, _)
MerkleProof(level, k) ==
    IF Len(level) = 1 THEN <<>>
    ELSE <<level[IF k % 2 = 1 THEN k + 1 ELSE k - 1]>>
             \o MerkleProof(PairUp(level), (k + 1) \div 2)

RootA == MerkleRoot(Leaves(SnapshotA))

RootB == MerkleRoot(Leaves(SnapshotB))

Roots == {RootA, RootB}

\* The entries a commitment was built over.
EntriesOf(root) ==
    IF root = RootA THEN {SnapshotA[k] : k \in 1..Len(SnapshotA)}
    ELSE IF root = RootB THEN {SnapshotB[k] : k \in 1..Len(SnapshotB)}
    ELSE {}

(***************************************************************************)
(* The claim requests offered: every entry with its genuine proof, and the *)
(* second entry of the first snapshot with each wallet, each amount, slot  *)
(* 0 in place of its slot, and the empty proof.                            *)
(***************************************************************************)
Request(index, amount, proof) ==
    [index |-> index, amount |-> amount, proof |-> proof]

GenuineClaims(snapshot) ==
    {[wallet |-> snapshot[k].wallet,
      req |-> Request(snapshot[k].index, snapshot[k].amount,
                      MerkleProof(Leaves(snapshot), k))] :
        k \in 1..Len(snapshot)}

Genuine == GenuineClaims(SnapshotA) \cup GenuineClaims(SnapshotB)

Forged ==
    LET c == CHOOSE g \in GenuineClaims(SnapshotA) : g.req.index = SnapshotA[2].index
    IN  {[c EXCEPT !.wallet = w] : w \in Signers}
        \cup {[c EXCEPT !.req.amount = a] : a \in 1..MaxAmount}
        \cup {[c EXCEPT !.req.index = 0], [c EXCEPT !.req.proof = <<>>]}

ClaimInputs == Genuine \cup Forged

SlotIndices == {c.req.index : c \in ClaimInputs}

Starts == 0..MaxStart

Durations == {0, 1, I64_MAX}

Totals == {1, MAX_CLAIMS, MAX_CLAIMS + 1}

\* What the build does with a signed sum that leaves the i64 range: abort
\* (overflow-checks on) or wrap (off).
OverflowModes == {"panic", "wrap"}

(***************************************************************************)
(* State.                                                                  *)
(***************************************************************************)
VARIABLES
    exists,     \* the State account is allocated (init done, not closed)
    state,      \* the State account's fields
    now,        \* Clock::get()?.unix_timestamp
    last,       \* the last instruction: its arguments, result, CPI and event
    paid        \* ghost: successful claims per slot of this State account

vars == <<exists, state, now, last, paid>>

\* The fields of an account that is not allocated.
NoState ==
    [authority |-> 0,
     snapshot_hash |-> RawDigest(0),
     claim_start_ts |-> 0,
     claim_duration |-> 0,
     claim_closed |-> FALSE,
     merkle_root |-> RawDigest(0),
     total_claims |-> 0,
     claim_residues0 |-> ZeroBytes(RESIDUES0_LEN),
     claim_residues1 |-> ZeroBytes(RESIDUES1_LEN),
     claim_residues2 |-> ZeroBytes(RESIDUES2_LEN)]

NoTransfer == [to |-> 0, amount |-> 0]

NoEvent == [name |-> "None"]

NoArgs == [none |-> TRUE]

Observed(op, caller, args, res, transfer, event) ==
    [op |-> op, caller |-> caller, args |-> args, res |-> res,
     transfer |-> transfer, event |-> event]

Init ==
    /\ exists = FALSE
    /\ state = NoState
    /\ now = 0
    /\ last = Observed("none", 0, NoArgs, "Ok", NoTransfer, NoEvent)
    /\ paid = [i \in SlotIndices |-> 0]

\* An instruction's outcome: its result, the account after it, the token
\* transfer it made and the event it emitted.
Outcome(res, st, transfer, event) ==
    [res |-> res, state |-> st, transfer |-> transfer, event |-> event]

Failed(res, st) == Outcome(res, st, NoTransfer, NoEvent)

(***************************************************************************)
(* Account validation, run before an instruction's body.                   *)
(***************************************************************************)
\* Mutant: init_if_needed, which takes an allocated account as it is.
InitializeAccounts_if_needed(ex) == "Ok"

\* Initialize.state: init fails on an account that is already allocated.
InitializeAccounts(ex) ==
    IF ex THEN "AccountAlreadyInUse" ELSE "Ok"

\* Claim.state must be an allocated State.  (Claim.user_ata is a token
\* account whose authority is the signing wallet: the transfer's destination
\* is the wallet's.)
ClaimAccounts(ex) ==
    IF ~ex THEN "AccountNotInitialized" ELSE "Ok"

\* has_one = authority on the four admin instructions.
AdminAccounts(ex, st, caller) ==
    IF ~ex THEN "AccountNotInitialized"
    ELSE IF st.authority # caller THEN "ConstraintHasOne"
    ELSE "Ok"

(***************************************************************************)
(* The instruction bodies.                                                 *)
(***************************************************************************)
initialize(authority, snapshot_hash, claim_start_ts, claim_duration, merkle_root, total_claims) ==
    IF ~(claim_duration > 0) THEN Failed("InvalidDuration", NoState)
    ELSE IF ~(total_claims <= MAX_CLAIMS) THEN Failed("InvalidIndex", NoState)
    ELSE Outcome("Ok",
                 [authority |-> authority,
                  snapshot_hash |-> snapshot_hash,
                  claim_start_ts |-> claim_start_ts,
                  claim_duration |-> claim_duration,
                  claim_closed |-> FALSE,
                  merkle_root |-> merkle_root,
                  total_claims |-> total_claims,
                  claim_residues0 |-> ZeroBytes(RESIDUES0_LEN),
                  claim_residues1 |-> ZeroBytes(RESIDUES1_LEN),
                  claim_residues2 |-> ZeroBytes(RESIDUES2_LEN)],
                 NoTransfer,
                 [name |-> "AirdropInitialized",
                  authority |-> authority,
                  snapshot_hash |-> snapshot_hash,
                  claim_start_ts |-> claim_start_ts,
                  claim_duration |-> claim_duration])

\* now >= claim_start_ts && now <= claim_start_ts + claim_duration, in i64:
\* the sum is evaluated only when the first conjunct holds.
WindowCheck(st, clock, ovf) ==
    IF ~(clock >= st.claim_start_ts) THEN "closed"
    ELSE LET sum == st.claim_start_ts + st.claim_duration
         IN  IF sum > I64_MAX \/ sum < I64_MIN
             THEN IF ovf = "panic" THEN "panic"
                  ELSE IF clock <= WrapI64(sum) THEN "open" ELSE "closed"
             ELSE IF clock <= sum THEN "open" ELSE "closed"

\* Mutant: the window is checked before the closed flag.
ClaimChecks_window_first(st, wallet, req, clock, ovf) ==
    IF WindowCheck(st, clock, ovf) = "panic" THEN "ProgramFailedToComplete"
    ELSE IF WindowCheck(st, clock, ovf) = "closed" THEN "ClaimWindowClosed"
    ELSE IF st.claim_closed THEN "ClaimClosed"
    ELSE IF ~(req.index < st.total_claims) THEN "InvalidIndex"
    ELSE IF ~verify_merkle_proof(keccak_leaf(req.index, wallet, req.amount),
                                 req.proof, st.merkle_root)
         THEN "InvalidProof"
    ELSE IF IsMember(st, req.index) THEN "AlreadyClaimed"
    ELSE "Ok"

\* The checks of claim in their order: the first that fails, or "Ok".
ClaimChecks(st, wallet, req, clock, ovf) ==
    IF st.claim_closed THEN "ClaimClosed"
    ELSE IF WindowCheck(st, clock, ovf) = "panic" THEN "ProgramFailedToComplete"
    ELSE IF WindowCheck(st, clock, ovf) = "closed" THEN "ClaimWindowClosed"
    ELSE IF ~(req.index < st.total_claims) THEN "InvalidIndex"
    ELSE IF ~verify_merkle_proof(keccak_leaf(req.index, wallet, req.amount),
                                 req.proof, st.merkle_root)
         THEN "InvalidProof"
    ELSE IF IsMember(st, req.index) THEN "AlreadyClaimed"
    ELSE "Ok"

\* Mutant: the slot is marked before the duplicate test, and the marks of a
\* rejected duplicate stay.
claim_marks_before_test(st, wallet, req, clock, ovf, transfer_ok) ==
    LET err == ClaimChecks(st, wallet, req, clock, ovf)
    IN  IF err = "AlreadyClaimed" THEN Failed(err, MarkClaimed(st, req.index))
        ELSE IF err # "Ok" THEN Failed(err, st)
        ELSE IF ~transfer_ok THEN Failed("TransferFailed", st)
        ELSE Outcome("Ok",
                     MarkClaimed(st, req.index),
                     [to |-> wallet, amount |-> req.amount],
                     [name |-> "Claimed",
                      wallet |-> wallet,
                      amount |-> req.amount,
                      index |-> req.index,
                      timestamp |-> clock])

\* Mutant: the marks written before the transfer_checked CPI stay when the
\* CPI fails.
claim_keeps_marks(st, wallet, req, clock, ovf, transfer_ok) ==
    LET err == ClaimChecks(st, wallet, req, clock, ovf)
    IN  IF err # "Ok" THEN Failed(err, st)
        ELSE IF ~transfer_ok
             THEN Failed("TransferFailed", MarkClaimed(st, req.index))
        ELSE Outcome("Ok",
                     MarkClaimed(st, req.index),
                     [to |-> wallet, amount |-> req.amount],
                     [name |-> "Claimed",
                      wallet |-> wallet,
                      amount |-> req.amount,
                      index |-> req.index,
                      timestamp |-> clock])

\* claim: the checks, the marking, the transfer_checked CPI and the event.  A
\* failed CPI fails the instruction, and with it the marking is discarded.
claim(st, wallet, req, clock, ovf, transfer_ok) ==
    LET err == ClaimChecks(st, wallet, req, clock, ovf)
    IN  IF err # "Ok" THEN Failed(err, st)
        ELSE IF ~transfer_ok THEN Failed("TransferFailed", st)
        ELSE Outcome("Ok",
                     MarkClaimed(st, req.index),
                     [to |-> wallet, amount |-> req.amount],
                     [name |-> "Claimed",
                      wallet |-> wallet,
                      amount |-> req.amount,
                      index |-> req.index,
                      timestamp |-> clock])

close_airdrop(st, caller, clock) ==
    IF ~(caller = st.authority) THEN Failed("Unauthorized", st)
    ELSE Outcome("Ok",
                 [st EXCEPT !.claim_closed = TRUE],
                 NoTransfer,
                 [name |-> "AirdropClosed",
                  authority |-> st.authority,
                  timestamp |-> clock])

\* Mutant: the new duration is stored without the comparison with 0.
update_claim_window_any_duration(st, caller, new_start_ts, new_duration, clock) ==
    IF ~(caller = st.authority) THEN Failed("Unauthorized", st)
    ELSE Outcome("Ok",
                 [st EXCEPT !.claim_closed = FALSE,
                            !.claim_start_ts = new_start_ts,
                            !.claim_duration = new_duration],
                 NoTransfer,
                 [name |-> "ClaimWindowUpdated",
                  new_start_ts |-> new_start_ts,
                  new_duration |-> new_duration,
                  timestamp |-> clock])

\* Mutant: the window is replaced and the closed flag left as it is.
update_claim_window_keeps_closed(st, caller, new_start_ts, new_duration, clock) ==
    IF ~(caller = st.authority) THEN Failed("Unauthorized", st)
    ELSE IF ~(new_duration > 0) THEN Failed("InvalidDuration", st)
    ELSE Outcome("Ok",
                 [st EXCEPT !.claim_start_ts = new_start_ts,
                            !.claim_duration = new_duration],
                 NoTransfer,
                 [name |-> "ClaimWindowUpdated",
                  new_start_ts |-> new_start_ts,
                  new_duration |-> new_duration,
                  timestamp |-> clock])

update_claim_window(st, caller, new_start_ts, new_duration, clock) ==
    IF ~(caller = st.authority) THEN Failed("Unauthorized", st)
    ELSE IF ~(new_duration > 0) THEN Failed("InvalidDuration", st)
    ELSE Outcome("Ok",
                 [st EXCEPT !.claim_closed = FALSE,
                            !.claim_start_ts = new_start_ts,
                            !.claim_duration = new_duration],
                 NoTransfer,
                 [name |-> "ClaimWindowUpdated",
                  new_start_ts |-> new_start_ts,
                  new_duration |-> new_duration,
                  timestamp |-> clock])

\* Mutant: a new root starts a new round, with the residue arrays zeroed.
update_merkle_root_new_round(st, caller, new_root, new_total_claims, clock) ==
    IF ~(new_total_claims <= MAX_CLAIMS) THEN Failed("InvalidIndex", st)
    ELSE IF ~(caller = st.authority) THEN Failed("Unauthorized", st)
    ELSE Outcome("Ok",
                 [st EXCEPT !.merkle_root = new_root,
                            !.total_claims = new_total_claims,
                            !.claim_residues0 = ZeroBytes(RESIDUES0_LEN),
                            !.claim_residues1 = ZeroBytes(RESIDUES1_LEN),
                            !.claim_residues2 = ZeroBytes(RESIDUES2_LEN)],
                 NoTransfer,
                 [name |-> "MerkleRootUpdated",
                  new_root |-> new_root,
                  new_total_claims |-> new_total_claims,
                  timestamp |-> clock])

\* Mutant: the new total is stored without the comparison with MAX_CLAIMS.
update_merkle_root_unbounded(st, caller, new_root, new_total_claims, clock) ==
    IF ~(caller = st.authority) THEN Failed("Unauthorized", st)
    ELSE Outcome("Ok",
                 [st EXCEPT !.merkle_root = new_root,
                            !.total_claims = new_total_claims],
                 NoTransfer,
                 [name |-> "MerkleRootUpdated",
                  new_root |-> new_root,
                  new_total_claims |-> new_total_claims,
                  timestamp |-> clock])

update_merkle_root(st, caller, new_root, new_total_claims, clock) ==
    IF ~(new_total_claims <= MAX_CLAIMS) THEN Failed("InvalidIndex", st)
    ELSE IF ~(caller = st.authority) THEN Failed("Unauthorized", st)
    ELSE Outcome("Ok",
                 [st EXCEPT !.merkle_root = new_root,
                            !.total_claims = new_total_claims],
                 NoTransfer,
                 [name |-> "MerkleRootUpdated",
                  new_root |-> new_root,
                  new_total_claims |-> new_total_claims,
                  timestamp |-> clock])

\* close_state: the body only checks the authority; close = recipient then
\* deallocates the account.
close_state(st, caller) ==
    IF ~(caller = st.authority) THEN Failed("Unauthorized", st)
    ELSE Outcome("Ok", NoState, NoTransfer, NoEvent)

(***************************************************************************)
(* The actions: the clock, and one per instruction.  An instruction runs   *)
(* its account validation first; when that rejects it, the body is not     *)
(* run, whatever the arguments.                                            *)
(***************************************************************************)
Idle == Observed("none", 0, NoArgs, "Ok", NoTransfer, NoEvent)

\* What is observed of an instruction that account validation rejected.
Rejected(op, caller, acct) ==
    Observed(op, caller, NoArgs, acct, NoTransfer, NoEvent)

NonePaid == [i \in SlotIndices |-> 0]

Tick ==
    /\ now < MaxTime
    /\ now' = now + 1
    /\ last' = Idle
    /\ UNCHANGED <<exists, state, paid>>

Initialize ==
    \E signer \in Payers :
        LET acct == InitializeAccounts(exists)
        IN  IF acct # "Ok"
            THEN /\ last' = Rejected("initialize", signer, acct)
                 /\ UNCHANGED <<exists, state, now, paid>>
            ELSE \E start \in Starts, dur \in Durations,
                    root \in Roots, total \in Totals :
                    LET out == initialize(signer, RawDigest(1), start, dur,
                                          root, total)
                    IN  /\ exists' = (out.res = "Ok")
                        /\ state' = out.state
                        /\ paid' = IF out.res = "Ok" THEN NonePaid ELSE paid
                        /\ last' = Observed("initialize", signer,
                                            [claim_start_ts |-> start,
                                             claim_duration |-> dur,
                                             merkle_root |-> root,
                                             total_claims |-> total],
                                            out.res, out.transfer, out.event)
                        /\ UNCHANGED now

\* The outcomes of one claim call: what the build does on overflow, and
\* whether the token program carries out the transfer, are not the caller's.
ClaimOutcomes(st, wallet, req, clock) ==
    {claim(st, wallet, req, clock, ovf, transfer_ok) :
        ovf \in OverflowModes, transfer_ok \in BOOLEAN}

ClaimOver(inputs) ==
    \E wallet \in Signers :
        LET acct == ClaimAccounts(exists)
        IN  IF acct # "Ok"
            THEN /\ last' = Rejected("claim", wallet, acct)
                 /\ UNCHANGED <<exists, state, now, paid>>
            ELSE \E c \in {x \in inputs : x.wallet = wallet} :
                 \E out \in ClaimOutcomes(state, wallet, c.req, now) :
                    /\ state' = out.state
                    /\ paid' = IF out.res = "Ok"
                               THEN [paid EXCEPT ![c.req.index] =
                                        IF @ < MaxPaid THEN @ + 1 ELSE @]
                               ELSE paid
                    /\ last' = Observed("claim", wallet,
                                        [index |-> c.req.index,
                                         amount |-> c.req.amount,
                                         proof |-> c.req.proof],
                                        out.res, out.transfer, out.event)
                    /\ UNCHANGED <<exists, now>>

Claim == ClaimOver(ClaimInputs)

CloseAirdrop ==
    \E caller \in Signers :
        LET acct == AdminAccounts(exists, state, caller)
        IN  IF acct # "Ok"
            THEN /\ last' = Rejected("close_airdrop", caller, acct)
                 /\ UNCHANGED <<exists, state, now, paid>>
            ELSE LET out == close_airdrop(state, caller, now)
                 IN  /\ state' = out.state
                     /\ last' = Observed("close_airdrop", caller, NoArgs,
                                         out.res, out.transfer, out.event)
                     /\ UNCHANGED <<exists, now, paid>>

UpdateClaimWindow ==
    \E caller \in Signers :
        LET acct == AdminAccounts(exists, state, caller)
        IN  IF acct # "Ok"
            THEN /\ last' = Rejected("update_claim_window", caller, acct)
                 /\ UNCHANGED <<exists, state, now, paid>>
            ELSE \E new_start_ts \in Starts, new_duration \in Durations :
                    LET out == update_claim_window(state, caller, new_start_ts,
                                                   new_duration, now)
                    IN  /\ state' = out.state
                        /\ last' = Observed("update_claim_window", caller,
                                            [new_start_ts |-> new_start_ts,
                                             new_duration |-> new_duration],
                                            out.res, out.transfer, out.event)
                        /\ UNCHANGED <<exists, now, paid>>

UpdateMerkleRoot ==
    \E caller \in Signers :
        LET acct == AdminAccounts(exists, state, caller)
        IN  IF acct # "Ok"
            THEN /\ last' = Rejected("update_merkle_root", caller, acct)
                 /\ UNCHANGED <<exists, state, now, paid>>
            ELSE \E new_root \in Roots, new_total_claims \in Totals :
                    LET out == update_merkle_root(state, caller, new_root,
                                                  new_total_claims, now)
                    IN  /\ state' = out.state
                        /\ last' = Observed("update_merkle_root", caller,
                                            [new_root |-> new_root,
                                             new_total_claims |-> new_total_claims],
                                            out.res, out.transfer, out.event)
                        /\ UNCHANGED <<exists, now, paid>>

CloseState ==
    \E caller \in Signers :
        LET acct == AdminAccounts(exists, state, caller)
        IN  IF acct # "Ok"
            THEN /\ last' = Rejected("close_state", caller, acct)
                 /\ UNCHANGED <<exists, state, now, paid>>
            ELSE \E recipient \in Signers :
                    LET out == close_state(state, caller)
                    IN  /\ exists' = (out.res # "Ok")
                        /\ state' = out.state
                        /\ paid' = IF out.res = "Ok" THEN NonePaid ELSE paid
                        /\ last' = Observed("close_state", caller,
                                            [recipient |-> recipient],
                                            out.res, out.transfer, out.event)
                        /\ UNCHANGED now

Next ==
    \/ Tick
    \/ Initialize
    \/ Claim
    \/ CloseAirdrop
    \/ UpdateClaimWindow
    \/ UpdateMerkleRoot
    \/ CloseState

Spec == Init /\ [][Next]_vars

(***************************************************************************)
(* verify_merkle_proof on its own: the inputs are drawn in the initial     *)
(* state, and the one action applies the function to them.  The inputs are *)
(* every leaf of a tree of 1, 2, .. 2^MaxDepth leaves with its genuine     *)
(* proof and root; the same with the leaf, one proof element or the root   *)
(* replaced by another 32-byte value; and the empty proof with any leaf    *)
(* and any root.                                                           *)
(***************************************************************************)
PoolEntry(k) == Entry(k - 1, 1 + (k % NumSigners), 1 + (k % MaxAmount))

TreeOfDepth(d) == [k \in 1..(2 ^ d) |-> PoolEntry(k)]

Trees == {TreeOfDepth(d) : d \in 0..MaxDepth}

\* Every digest of a tree: its leaves, its inner nodes and its root.
RECURSIVE TreeDigests(_)
TreeDigests(level) ==
    {level[k] : k \in 1..Len(level)}
        \cup (IF Len(level) = 1 THEN {} ELSE TreeDigests(PairUp(level)))

\* The 32-byte values a genuine value is replaced by.
Digests == {RawDigest(0)} \cup UNION {TreeDigests(Leaves(t)) : t \in Trees}

ProofInput(kind, leaf, proof, root) ==
    [kind |-> kind, leaf |-> leaf, proof |-> proof, root |-> root]

GenuineProofs ==
    UNION {{ProofInput("genuine", Leaves(t)[k], MerkleProof(Leaves(t), k),
                       MerkleRoot(Leaves(t))) : k \in 1..Len(t)} : t \in Trees}

AlteredProofs(g) ==
    {[g EXCEPT !.kind = "leaf", !.leaf = d] : d \in Digests \ {g.leaf}}
        \cup {[g EXCEPT !.kind = "root", !.root = d] : d \in Digests \ {g.root}}
        \cup UNION {{[g EXCEPT !.kind = "element", !.proof[j] = d] :
                        d \in Digests \ {g.proof[j]}} : j \in 1..Len(g.proof)}

EmptyProofs ==
    {ProofInput("empty", leaf, <<>>, root) : leaf \in Digests, root \in Digests}

ProofInputs ==
    GenuineProofs \cup UNION {AlteredProofs(g) : g \in GenuineProofs}
        \cup EmptyProofs

ProofInit ==
    /\ exists = FALSE
    /\ state = NoState
    /\ now = 0
    /\ paid = NonePaid
    /\ \E x \in ProofInputs :
          last = Observed("input", 0, x, "Ok", NoTransfer, NoEvent)

VerifyProof ==
    /\ last.op = "input"
    /\ last' = [last EXCEPT
                   !.op = "verify_merkle_proof",
                   !.res = IF verify_merkle_proof(last.args.leaf,
                                                  last.args.proof,
                                                  last.args.root)
                           THEN "true" ELSE "false"]
    /\ UNCHANGED <<exists, state, now, paid>>

ProofNext == VerifyProof

ProofSpec == ProofInit /\ [][ProofNext]_vars

(***************************************************************************)
(* The ledger near its capacity.  It starts as the claims of slots 0 ..     *)
(* 308 and an update_merkle_root leave it: those slots marked, and a root   *)
(* over slots 309 and 310 (the two residues modulo 311 still free), 311,    *)
(* and 931, which shares its residue modulo 311 with 309 and no other       *)
(* residue with a marked slot.  The clock ticks and claims are made.        *)
(***************************************************************************)
CapClaimed == 0..(MODULUS1 - 3)

CapSnapshot ==
    << Entry(MODULUS1 - 2, 1, 1), Entry(MODULUS1 - 1, 2, 1),
       Entry(MODULUS1, 1, 2), Entry(3 * MODULUS1 - 2, 2, 2) >>

CapRoot == MerkleRoot(Leaves(CapSnapshot))

\* Each entry's claim with its genuine proof, and with the empty proof.
CapInputs ==
    GenuineClaims(CapSnapshot)
        \cup {[c EXCEPT !.req.proof = <<>>] : c \in GenuineClaims(CapSnapshot)}

CapSlots == CapClaimed \cup {c.req.index : c \in CapInputs}

\* The ledger after successful claims of the slots lo .. hi, the lower half
\* first and then, on the ledger it leaves (where slot mid is marked), the
\* upper half.
RECURSIVE MarkRange(_, _, _)
MarkRange(st, lo, hi) ==
    IF lo > hi THEN st
    ELSE IF lo = hi THEN MarkClaimed(st, lo)
    ELSE LET mid == (lo + hi) \div 2
             lower == MarkRange(st, lo, mid)
         IN  IF IsMember(lower, mid) THEN MarkRange(lower, mid + 1, hi)
             ELSE lower

CapInit ==
    /\ exists = TRUE
    /\ state = MarkRange(
                   initialize(1, RawDigest(1), 0, I64_MAX, CapRoot, MAX_CLAIMS).state,
                   0, MODULUS1 - 3)
    /\ now = 0
    /\ last = Idle
    /\ paid = [i \in CapSlots |-> IF i \in CapClaimed THEN 1 ELSE 0]

CapClaim == ClaimOver(CapInputs)

CapNext ==
    \/ Tick
    \/ CapClaim

CapSpec == CapInit /\ [][CapNext]_vars

(***************************************************************************)
(* Properties.                                                             *)
(***************************************************************************)
\* A step that ran claim: the step's observation is a claim's.
ClaimStep == last'.op = "claim"

\* The results of a claim that got past the closed, window, index and proof
\* checks, that is to the duplicate test.
ReachedTest == {"AlreadyClaimed", "TransferFailed", "Ok"}

\* Slots i and j share a residue under one of the three moduli.
SharesResidue(i, j) ==
    \/ i % MODULUS0 = j % MODULUS0
    \/ i % MODULUS1 = j % MODULUS1
    \/ i % MODULUS2 = j % MODULUS2

\* C1: exactly-once redemption.  While the ledger exists, every slot that was
\* claimed successfully tests as a member and was paid once, and a claim for
\* such a slot that reaches the duplicate test fails with AlreadyClaimed.
C1_ExactlyOnce ==
    /\ [](\A i \in SlotIndices :
            paid[i] > 0 => (exists /\ IsMember(state, i) /\ paid[i] = 1))
    /\ [][(ClaimStep /\ last'.res \in ReachedTest /\ paid[last'.args.index] > 0)
            => last'.res = "AlreadyClaimed"]_vars

\* C1 witness: a second claim for a slot that was paid is rejected.
C1_Witness ==
    /\ last.op = "claim"
    /\ last.res = "AlreadyClaimed"
    /\ paid[last.args.index] = 1

C3_NoFalseRejection ==
    (/\ last.op = "claim"
     /\ last.res = "AlreadyClaimed"
     /\ state.total_claims <= MAX_CLAIMS)
        => paid[last.args.index] > 0

\* The five errors of claim's own checks.
ClaimErrors ==
    {"ClaimClosed", "ClaimWindowClosed", "InvalidIndex", "InvalidProof",
     "AlreadyClaimed"}

\* C4: a claim that fails with ClaimClosed, ClaimWindowClosed, InvalidIndex,
\* InvalidProof or AlreadyClaimed leaves every field of the ledger unchanged,
\* makes no transfer and emits no event.
C4_FailedClaimChangesNothing ==
    [][(ClaimStep /\ last'.res \in ClaimErrors)
        => /\ state' = state
           /\ exists' = exists
           /\ paid' = paid
           /\ last'.transfer = NoTransfer
           /\ last'.event = NoEvent]_vars

\* C4 witness: a claim rejected as a duplicate on a ledger with marked slots.
C4_Witness ==
    /\ last.op = "claim"
    /\ last.res = "AlreadyClaimed"
    /\ state.claim_residues1.bytes # <<>>
    /\ \E i \in SlotIndices : paid[i] > 0 /\ i # last.args.index

\* C5: entitlement binding.  After a successful claim of amount a for slot i
\* by wallet w, the leaf of (i, w, a) folds through the supplied proof to the
\* stored commitment, i < total_claims, the transfer is of a to w, and
\* (i, w, a) is an entry of the snapshot the commitment was built over.
C5_EntitlementBinding ==
    (last.op = "claim" /\ last.res = "Ok")
        => /\ FoldProof(keccak_leaf(last.args.index, last.caller, last.args.amount),
                        last.args.proof) = state.merkle_root
           /\ last.args.index < state.total_claims
           /\ last.transfer = [to |-> last.caller, amount |-> last.args.amount]
           /\ Entry(last.args.index, last.caller, last.args.amount)
                  \in EntriesOf(state.merkle_root)

\* C5 witness: a claim with a two-element proof succeeded.
C5_Witness ==
    /\ last.op = "claim"
    /\ last.res = "Ok"
    /\ Len(last.args.proof) = 2
    /\ last.transfer.amount = last.args.amount

\* Every bit set in the array old is set in the array new.
BitsKept(old, new) ==
    \/ new = old
    \/ /\ new.len = old.len
       /\ \A k \in DOMAIN old.bytes : \A b \in 0..7 :
             BitAnd(old.bytes[k], b) => BitAnd(ByteAt(new, k), b)

\* C6: monotonicity.  Every step but a successful close_state keeps every bit
\* that is set in any of the three residue arrays.
C6_Monotone ==
    [][\/ (last'.op = "close_state" /\ last'.res = "Ok")
       \/ /\ BitsKept(state.claim_residues0, state'.claim_residues0)
          /\ BitsKept(state.claim_residues1, state'.claim_residues1)
          /\ BitsKept(state.claim_residues2, state'.claim_residues2)]_vars

\* C6 witness: a claim set a second bit in a byte of each array, and the bit
\* that was set there before is still set.
C6_Witness ==
    /\ last.op = "claim"
    /\ last.res = "Ok"
    /\ ByteAt(state.claim_residues0, 0) = 3
    /\ ByteAt(state.claim_residues1, 0) = 3
    /\ ByteAt(state.claim_residues2, 0) = 3

\* C7: the closed gate.  A successful close_airdrop sets the flag; while it is
\* set every claim fails with ClaimClosed; and only a successful
\* update_claim_window (or the account's teardown) clears it.
C7_ClosedGate ==
    /\ []((last.op = "claim" /\ exists /\ state.claim_closed)
            => last.res = "ClaimClosed")
    /\ [][(last'.op = "close_airdrop" /\ last'.res = "Ok")
            => state'.claim_closed]_vars
    /\ [][(exists /\ state.claim_closed /\ ~state'.claim_closed)
            => /\ last'.op \in {"update_claim_window", "close_state"}
               /\ last'.res = "Ok"]_vars

\* C7 witness: a claim that every other check would let through (inside the
\* window, slot in range, proof genuine, slot unmarked) fails with ClaimClosed.
C7_Witness ==
    /\ last.op = "claim"
    /\ last.res = "ClaimClosed"
    /\ state.claim_start_ts <= now
    /\ now <= state.claim_start_ts + state.claim_duration
    /\ last.args.index < state.total_claims
    /\ FoldProof(keccak_leaf(last.args.index, last.caller, last.args.amount),
                 last.args.proof) = state.merkle_root
    /\ ~IsMember(state, last.args.index)

\* C8 (as claimed): on an open ledger a claim at time now fails with
\* ClaimWindowClosed when now < window_start or now > window_start +
\* window_duration, and is not rejected with ClaimWindowClosed when
\* window_start <= now <= window_start + window_duration.
C8_WindowInclusive ==
    (last.op = "claim" /\ exists /\ ~state.claim_closed)
        => LET start == state.claim_start_ts
               end == state.claim_start_ts + state.claim_duration
           IN  /\ (now < start \/ now > end) => last.res = "ClaimWindowClosed"
               /\ (start <= now /\ now <= end) => last.res # "ClaimWindowClosed"

\* What holds of the window check: the same, for the windows whose end
\* window_start + window_duration is an i64.
WindowInclusiveInRange ==
    (/\ last.op = "claim" /\ exists /\ ~state.claim_closed
     /\ state.claim_start_ts + state.claim_duration <= I64_MAX)
        => LET start == state.claim_start_ts
               end == state.claim_start_ts + state.claim_duration
           IN  /\ (now < start \/ now > end) => last.res = "ClaimWindowClosed"
               /\ (start <= now /\ now <= end) => last.res # "ClaimWindowClosed"

AdminOps ==
    {"close_airdrop", "update_claim_window", "update_merkle_root", "close_state"}

\* C9 (as claimed): close, update_window, update_commitment and teardown,
\* invoked by an identity other than the stored authority, fail with
\* Unauthorized and leave the ledger unchanged.
C9_Unauthorized ==
    [][(last'.op \in AdminOps /\ exists /\ last'.caller # state.authority)
        => /\ last'.res = "Unauthorized"
           /\ state' = state /\ exists' = exists]_vars

\* What holds of the authority gate: such a call is rejected by the has_one
\* constraint, before the body and its argument checks, and changes nothing.
RejectedByHasOne ==
    [][(last'.op \in AdminOps /\ exists /\ last'.caller # state.authority)
        => /\ last'.res = "ConstraintHasOne"
           /\ state' = state /\ exists' = exists /\ paid' = paid]_vars

\* C10: the reopen side effect.  A successful update_claim_window leaves the
\* ledger open with exactly the supplied start and duration, and changes no
\* other field.
C10_Reopen ==
    [][(last'.op = "update_claim_window" /\ last'.res = "Ok")
        => /\ ~state'.claim_closed
           /\ state' = [state EXCEPT
                            !.claim_closed = FALSE,
                            !.claim_start_ts = last'.args.new_start_ts,
                            !.claim_duration = last'.args.new_duration]
           /\ exists' = exists
           /\ paid' = paid]_vars

\* C10 witness: update_claim_window succeeded on a ledger with marked slots,
\* whose window is now the supplied one, and a claim is let through again.
C10_Witness ==
    /\ last.op = "update_claim_window"
    /\ last.res = "Ok"
    /\ ~state.claim_closed
    /\ state.claim_start_ts = last.args.new_start_ts
    /\ state.claim_duration = last.args.new_duration
    /\ \E i \in SlotIndices : paid[i] > 0

\* A step whose instruction got past account validation and ran its body on
\* the arguments given.
BodyRan(op) == last'.op = op /\ last'.args # NoArgs

\* C11 (as claimed): total_claims <= 1,000,000 while the ledger exists;
\* initialize and update_merkle_root with a total above MAX_CLAIMS fail with
\* InvalidIndex and change nothing; no other instruction changes total_claims.
C11_TotalAboveMaxIsInvalidIndex ==
    /\ [](exists => state.total_claims <= MAX_CLAIMS)
    /\ [][(BodyRan("initialize") /\ last'.args.total_claims > MAX_CLAIMS)
            => /\ last'.res = "InvalidIndex"
               /\ state' = state /\ exists' = exists]_vars
    /\ [][(BodyRan("update_merkle_root")
             /\ last'.args.new_total_claims > MAX_CLAIMS)
            => /\ last'.res = "InvalidIndex"
               /\ state' = state /\ exists' = exists]_vars
    /\ [][(exists /\ exists' /\ state'.total_claims # state.total_claims)
            => last'.op = "update_merkle_root"]_vars

\* C11: total_claims <= 1,000,000 while the ledger exists.  initialize and
\* update_merkle_root with a total above MAX_CLAIMS fail and change nothing:
\* initialize with InvalidIndex when its duration is positive (InvalidDuration
\* is reported first), update_merkle_root with InvalidIndex when the authority
\* calls it.  On a ledger that exists only a successful update_merkle_root
\* changes total_claims.
C11_TotalBounded ==
    /\ [](exists => state.total_claims <= MAX_CLAIMS)
    /\ [][(BodyRan("initialize") /\ last'.args.total_claims > MAX_CLAIMS)
            => /\ last'.res = IF last'.args.claim_duration > 0
                              THEN "InvalidIndex" ELSE "InvalidDuration"
               /\ state' = state /\ exists' = exists /\ paid' = paid]_vars
    /\ [][(BodyRan("update_merkle_root")
             /\ last'.args.new_total_claims > MAX_CLAIMS)
            => /\ last'.caller = state.authority
               /\ last'.res = "InvalidIndex"
               /\ state' = state /\ exists' = exists /\ paid' = paid]_vars
    /\ [][(exists /\ exists' /\ state'.total_claims # state.total_claims)
            => /\ last'.op = "update_merkle_root"
               /\ last'.res = "Ok"
               /\ state'.total_claims = last'.args.new_total_claims]_vars

\* C11 witness: the authority's update_merkle_root with 1,000,001 slots was
\* rejected with InvalidIndex on a ledger whose total is within the bound.
C11_Witness ==
    /\ last.op = "update_merkle_root"
    /\ last.res = "InvalidIndex"
    /\ last.args.new_total_claims = MAX_CLAIMS + 1
    /\ exists
    /\ state.total_claims <= MAX_CLAIMS

\* C12: proof round trip.  For a commitment built over N leaves by sorted-pair
\* hashing, verify_merkle_proof is true for every leaf with its genuine proof,
\* false when the leaf, one proof element or the root is replaced by another
\* value, and with the empty proof true exactly when the leaf equals the root
\* (the hash having no collisions).
C12_ProofRoundTrip ==
    last.op = "verify_merkle_proof"
        => /\ last.args.kind = "genuine" => last.res = "true"
           /\ last.args.kind \in {"leaf", "element", "root"} => last.res = "false"
           /\ last.args.proof = <<>>
                 => (last.res = "true" <=> last.args.leaf = last.args.root)

\* C12 witness: a genuine two-element proof whose second element was replaced
\* is refused, for a leaf that is the right-hand one of its pair.
C12_Witness ==
    /\ last.op = "verify_merkle_proof"
    /\ last.args.kind = "element"
    /\ Len(last.args.proof) = 2
    /\ DigestLess(last.args.proof[1], last.args.leaf)
    /\ last.args.proof[2] \notin TreeDigests(Leaves(TreeOfDepth(MaxDepth)))
    /\ last.res = "false"

\* The instructions that work on a ledger that exists.
LedgerOps == AdminOps \cup {"claim"}

\* C13: teardown ends the ledger's life.  A successful close_state, which only
\* the authority obtains, leaves no ledger; while there is no ledger no claim,
\* close_airdrop, update_claim_window, update_merkle_root or close_state
\* succeeds or changes anything; only a successful close_state destroys the
\* ledger; and while the ledger exists initialize fails and changes nothing.
C13_Teardown ==
    /\ [][(last'.op = "close_state" /\ last'.res = "Ok")
            => /\ exists /\ last'.caller = state.authority
               /\ ~exists' /\ state' = NoState]_vars
    /\ [][(~exists /\ last'.op \in LedgerOps)
            => /\ last'.res = "AccountNotInitialized"
               /\ ~exists' /\ state' = state
               /\ last'.transfer = NoTransfer /\ last'.event = NoEvent]_vars
    /\ [][(exists /\ ~exists')
            => last'.op = "close_state" /\ last'.res = "Ok"]_vars
    /\ [][(exists /\ last'.op = "initialize")
            => /\ last'.res = "AccountAlreadyInUse"
               /\ exists' /\ state' = state /\ paid' = paid]_vars

\* C13 witness: the authority tore down a ledger; nothing is left of it.
C13_Witness ==
    /\ last.op = "close_state"
    /\ last.res = "Ok"
    /\ last.caller \in Signers
    /\ ~exists
    /\ state = NoState

\* The bit of slot index is set in each of the three arrays of st.
AllBitsSet(st, index) ==
    /\ check_residue_set(st.claim_residues0, index % MODULUS0)
    /\ check_residue_set(st.claim_residues1, index % MODULUS1)
    /\ check_residue_set(st.claim_residues2, index % MODULUS2)

\* C14: no partial success in claim.  After a claim call the slot's three bits
\* were newly set by it iff the transfer of the amount to the wallet was made
\* and the Claimed event (wallet, amount, index, timestamp) was emitted; any
\* other claim call leaves the ledger as it was, and so does a claim whose
\* transfer fails after the marking.
C14_NoPartialSuccess ==
    [][ClaimStep =>
        LET marked == /\ ~IsMember(state, last'.args.index)
                      /\ AllBitsSet(state', last'.args.index)
            sent == last'.transfer = [to |-> last'.caller,
                                      amount |-> last'.args.amount]
            told == last'.event = [name |-> "Claimed",
                                   wallet |-> last'.caller,
                                   amount |-> last'.args.amount,
                                   index |-> last'.args.index,
                                   timestamp |-> now]
        IN  IF last'.res = "Ok"
            THEN marked /\ sent /\ told
            ELSE /\ state' = state
                 /\ last'.transfer = NoTransfer
                 /\ last'.event = NoEvent]_vars

\* C14 witness: a claim passed every check and its transfer failed; the slot
\* is unmarked, on a ledger where other slots are marked.
C14_Witness ==
    /\ last.op = "claim"
    /\ last.res = "TransferFailed"
    /\ ~IsMember(state, last.args.index)
    /\ \E i \in SlotIndices : paid[i] > 0

\* The error the five checks of claim call for, taken in the order closed
\* flag, window, index range, proof, membership, with the window the interval
\* [claim_start_ts, claim_start_ts + claim_duration]; "None" when all pass.
FirstFailingCheck(st, wallet, req, clock) ==
    IF st.claim_closed THEN "ClaimClosed"
    ELSE IF clock < st.claim_start_ts
             \/ clock > st.claim_start_ts + st.claim_duration
         THEN "ClaimWindowClosed"
    ELSE IF req.index >= st.total_claims THEN "InvalidIndex"
    ELSE IF FoldProof(keccak_leaf(req.index, wallet, req.amount), req.proof)
                # st.merkle_root
         THEN "InvalidProof"
    ELSE IF IsMember(st, req.index) THEN "AlreadyClaimed"
    ELSE "None"

\* The result of the claim of this step is the error of the first of the five
\* checks that fails, and none of the five errors when all of them pass.
ReportsFirstFailingCheck ==
    LET first == FirstFailingCheck(state, last'.caller, last'.args, now)
    IN  IF first = "None" THEN last'.res \notin ClaimErrors
        ELSE last'.res = first

\* C15 (as claimed): claim reports the error of the first check that fails,
\* in the order ClaimClosed, ClaimWindowClosed, InvalidIndex, InvalidProof,
\* AlreadyClaimed.
C15_ErrorPrecedence ==
    [][BodyRan("claim") => ReportsFirstFailingCheck]_vars

\* What holds of the precedence: the same, for the windows whose end
\* claim_start_ts + claim_duration is an i64.
ErrorPrecedenceInRange ==
    [][(BodyRan("claim")
          /\ state.claim_start_ts + state.claim_duration <= I64_MAX)
        => ReportsFirstFailingCheck]_vars

\* The claims whose proof verifies against root.
ValidFor(root) ==
    {c \in ClaimInputs :
        verify_merkle_proof(keccak_leaf(c.req.index, c.wallet, c.req.amount),
                            c.req.proof, root)}

\* The results of a claim that got past every check before the duplicate test.
PastProofCheck(st, c, clock) ==
    {out.res : out \in ClaimOutcomes(st, c.wallet, c.req, clock)}
        \ {"ClaimClosed", "ProgramFailedToComplete", "ClaimWindowClosed",
           "InvalidIndex", "InvalidProof"}

\* C16: a successful update_merkle_root replaces merkle_root and total_claims
\* and nothing else: the residue arrays, the window, the closed flag and the
\* authority stay.  So a slot claimed before it is still rejected with
\* AlreadyClaimed under the new root, even with a proof valid for that root.
C16_CommitmentUpdateKeepsMarks ==
    [][(last'.op = "update_merkle_root" /\ last'.res = "Ok")
        => /\ last'.caller = state.authority
           /\ state' = [state EXCEPT
                            !.merkle_root = last'.args.new_root,
                            !.total_claims = last'.args.new_total_claims]
           /\ exists' = exists
           /\ paid' = paid
           /\ \A c \in ValidFor(state'.merkle_root) :
                 paid[c.req.index] > 0
                     => PastProofCheck(state', c, now) \subseteq {"AlreadyClaimed"}]_vars

\* C16 witness: the root was replaced by that of the second snapshot after
\* slot 0 was claimed; the claim of the second snapshot's slot 0, with its
\* genuine proof, inside the window, is rejected with AlreadyClaimed.
C16_Witness ==
    /\ last.op = "update_merkle_root"
    /\ last.res = "Ok"
    /\ state.merkle_root = RootB
    /\ paid[0] > 0
    /\ \E c \in ValidFor(RootB) :
          /\ c.req.index = 0
          /\ PastProofCheck(state, c, now) = {"AlreadyClaimed"}

\* C17: claim_duration > 0 while the ledger exists.  initialize and
\* update_claim_window with a duration <= 0 fail with InvalidDuration and
\* leave the ledger as it was, a closed ledger closed; and a ledger that
\* initialize created is open, with its three residue arrays all zero.
C17_DurationPositive ==
    /\ [](exists => state.claim_duration > 0)
    /\ [][(BodyRan("initialize") /\ last'.args.claim_duration <= 0)
            => /\ last'.res = "InvalidDuration"
               /\ state' = state /\ exists' = exists /\ paid' = paid]_vars
    /\ [][(BodyRan("update_claim_window") /\ last'.args.new_duration <= 0)
            => /\ last'.res = "InvalidDuration"
               /\ state' = state /\ exists' = exists /\ paid' = paid]_vars
    /\ [][(last'.op = "initialize" /\ last'.res = "Ok")
            => /\ ~exists /\ exists'
               /\ ~state'.claim_closed
               /\ state'.claim_duration = last'.args.claim_duration
               /\ state'.claim_residues0 = ZeroBytes(RESIDUES0_LEN)
               /\ state'.claim_residues1 = ZeroBytes(RESIDUES1_LEN)
               /\ state'.claim_residues2 = ZeroBytes(RESIDUES2_LEN)
               /\ \A i \in SlotIndices : ~IsMember(state', i)]_vars

\* C17 witness: update_claim_window with duration 0 failed with
\* InvalidDuration on a closed ledger, which is still closed.
C17_Witness ==
    /\ last.op = "update_claim_window"
    /\ last.res = "InvalidDuration"
    /\ last.args.new_duration <= 0
    /\ exists
    /\ state.claim_closed
    /\ state.claim_duration > 0

\* The number of bits set in a residue array.
SetBits(residues) ==
    Cardinality({kb \in (DOMAIN residues.bytes) \X (0..7) :
                    BitAnd(residues.bytes[kb[1]], kb[2])})

\* The number of claims that have succeeded on this ledger: the sum of the
\* per-slot counts.
Succeeded ==
    Cardinality({in \in (DOMAIN paid) \X (1..MaxPaid) : paid[in[1]] >= in[2]})

SampledSlots == {c.req.index : c \in CapInputs} \cup {0, MAX_CLAIMS - 1}

\* Every slot claimed so far lies in [0, 311).
ClaimedBelowModulus1 == \A j \in DOMAIN paid : paid[j] > 0 => j < MODULUS1

\* C19: exactness on a short range.  Two distinct slots that differ by less
\* than 311 share no residue modulo 971, 311 or 601; and while every claimed
\* slot and the requested one lie in [0, 311), a claim that reaches the
\* duplicate test fails with AlreadyClaimed iff that slot was claimed before.
C19_ExactBelowModulus1 ==
    /\ [](\A i \in SampledSlots : \A d \in 1..(MODULUS1 - 1) :
            ~SharesResidue(i, i + d) /\ (i >= d => ~SharesResidue(i, i - d)))
    /\ [][(/\ ClaimStep
           /\ last'.res \in ReachedTest
           /\ last'.args.index < MODULUS1
           /\ ClaimedBelowModulus1)
            => (last'.res = "AlreadyClaimed" <=> paid[last'.args.index] > 0)]_vars

\* C19 witness: with the 310 other slots of [0, 311) claimed, and no slot
\* outside it, the claim of slot 310 succeeded.
C19_Witness ==
    /\ last.op = "claim"
    /\ last.res = "Ok"
    /\ last.args.index = MODULUS1 - 1
    /\ ClaimedBelowModulus1
    /\ \A j \in 0..(MODULUS1 - 1) : paid[j] = 1

====
